---- MODULE Spec2Model ----
(***************************************************************************)
(* Data validation stage of the network security training pipeline:        *)
(* networksecurity/components/data_validation.py, class DataValidation.     *)
(*                                                                         *)
(* A run is one call of DataValidation.initiate_data_validation.  Python    *)
(* values are records ([py |-> "NoneType"], [py |-> "bool", ...]) so that   *)
(* None, booleans, frames, artifacts and exceptions can be compared.        *)
(* p-values are in hundredths (5 is 0.05).  A DataFrame is the function     *)
(* from its column names to their dtype ("number" or "object"); its         *)
(* columns are iterated in ascending order of their name.  A path is a      *)
(* record of its directory and its file name; os.makedirs of the directory  *)
(* is part of the write that follows it, and either may raise OSError.      *)
(***************************************************************************)
EXTENDS Integers, Sequences, FiniteSets, TLC

VARIABLES
    runs,                     \* the calls of initiate_data_validation in flight
    schema_config,            \* self._schema_config, read from SCHEMA_FILE_PATH
    data_ingestion_artifact,  \* per run: self.data_ingestion_artifact
    data_validation_config,   \* per run: self.data_validation_config
    fs,                       \* the filesystem: path -> file content
    pc,                       \* per run: the statement the run is at
    train_dataframe,          \* per run: local train_dataframe
    test_dataframe,           \* per run: local test_dataframe
    checks,                   \* per run: the values `status` took in lines 116-129
    status,                   \* per run: local status after line 134
    drift,                    \* per run: locals (status, report) of detect_dataset_drift
    artifact,                 \* per run: the DataValidationArtifact returned
    raised,                   \* per run: the exception propagated to the caller
    failedAt,                 \* per run: the statement that raised (history)
    trace                     \* per run: the phases entered, in order (history)

vars == <<runs, schema_config, data_ingestion_artifact, data_validation_config, fs,
          pc, train_dataframe, test_dataframe, checks, status, drift, artifact,
          raised, failedAt, trace>>

-----------------------------------------------------------------------------
(* Bounds *)

\* Column names are 1..NumCols.
NumCols == 2

\* threshold = 0.05, in hundredths.
Threshold == 5

Cols == 1..NumCols

\* What ks_2samp(...).pvalue can be: below, at and above the threshold.
PValues == {Threshold - 1, Threshold, Threshold + 1}

-----------------------------------------------------------------------------
(* Python values *)

PyNone == [py |-> "NoneType"]

PyBool(b) == [py |-> "bool", value |-> b]

DataFrame(dtypes) == [py |-> "DataFrame", dtypes |-> dtypes]

\* dataframe.columns
Columns(dataframe) == DOMAIN dataframe.dtypes

\* The frames pd.read_csv can return: at least one column (an empty file raises).
Frames == { DataFrame(d) : d \in UNION { [S -> {"number", "object"}] : S \in (SUBSET Cols) \ {{}} } }

\* The schema mapping read_yaml_file returns, with its two top-level keys: the
\* declared columns (at least one) and, among them, the numerical ones.
Schemas ==
    UNION { { [columns |-> C, numerical_columns |-> N] : N \in SUBSET C } :
            C \in (SUBSET Cols) \ {{}} }

Exception(type) == [py |-> "Exception", type |-> type]

\* NetworkSecurityException(e, sys): the domain exception built from e.
NetworkSecurityException(e) == [py |-> "Exception", type |-> "NetworkSecurityException", error |-> e]

RECURSIVE RootCause(_)
RootCause(e) == IF "error" \in DOMAIN e THEN RootCause(e.error) ELSE e

Path(dir, file) == [dir |-> dir, file |-> file]

NoFile == [kind |-> "absent"]

\* DataFrame.to_csv(path, index=False, header=True): the header row and the rows.
CsvFile(dataframe) == [kind |-> "csv", frame |-> dataframe]

\* write_yaml_file(file_path, content)
YamlFile(content) == [kind |-> "yaml", content |-> content]

\* len(x) of a mapping: the number of its keys.
len(mapping) == Cardinality(DOMAIN mapping)

-----------------------------------------------------------------------------
(* validate_number_of_columns, validate_numerical_columns *)

validate_number_of_columns(schema, dataframe) ==
    LET number_of_columns == len(schema)
    IN  IF Cardinality(Columns(dataframe)) = number_of_columns THEN TRUE ELSE FALSE

\* dataframe.select_dtypes(include=['number']).columns
select_number_columns(dataframe) ==
    { c \in Columns(dataframe) : dataframe.dtypes[c] = "number" }

\* Python's set == int: values of different types are never equal.
SetEqualsInt(s, n) == FALSE

validate_numerical_columns(schema, dataframe) ==
    LET expected_numerical_columns == schema.numerical_columns
        actual_numerical_columns == select_number_columns(dataframe)
        missing_columns == expected_numerical_columns \ actual_numerical_columns
    IN  IF SetEqualsInt(missing_columns, 0) THEN TRUE ELSE FALSE

-----------------------------------------------------------------------------
(* detect_dataset_drift *)

\* The ascending sequence of a set of column names.
RECURSIVE ColumnSeq(_)
ColumnSeq(S) ==
    IF S = {} THEN << >>
    ELSE LET m == CHOOSE x \in S : \A y \in S : x <= y
         IN  <<m>> \o ColumnSeq(S \ {m})

\* `for column in base_df.columns` iterates the current frame's columns instead.
LoopColumnsOfCurrent(base_df, current_df) == ColumnSeq(Columns(current_df))

\* `for column in base_df.columns`
LoopColumns(base_df, current_df) == ColumnSeq(Columns(base_df))

\* Lines 87-95: one report entry.
DriftEntry(pvalue, threshold) ==
    IF threshold <= pvalue
    THEN [p_value |-> pvalue, drift_status |-> FALSE]
    ELSE [p_value |-> pvalue, drift_status |-> TRUE]

\* Lines 83-95 from the i-th column on.  ks is what scipy's ks_2samp does on
\* this pair of frames: ks.pvalue[c] its p-value on column c, ks.raises the
\* columns it raises on (the loop ends at the first, so one is enough).  acc
\* holds the locals status and report.
RECURSIVE DriftLoop(_, _, _, _, _, _, _)
DriftLoop(columns, i, base_df, current_df, ks, threshold, acc) ==
    IF i > Len(columns) THEN acc
    ELSE LET column == columns[i]
         IN  IF column \notin Columns(base_df) \/ column \notin Columns(current_df)
             THEN [acc EXCEPT !.raised = Exception("KeyError")]
             ELSE IF column \in ks.raises
             THEN [acc EXCEPT !.raised = Exception("ValueError")]
             ELSE LET entry == DriftEntry(ks.pvalue[column], threshold)
                  IN  DriftLoop(columns, i + 1, base_df, current_df, ks, threshold,
                                [acc EXCEPT !.status = IF entry.drift_status THEN FALSE ELSE @,
                                            !.report = (column :> entry) @@ @])

\* Lines 81-95.
DriftLocals(base_df, current_df, ks, threshold) ==
    DriftLoop(LoopColumns(base_df, current_df), 1, base_df, current_df, ks, threshold,
              [status |-> TRUE, report |-> << >>, raised |-> PyNone])

\* The value a call of detect_dataset_drift that completes evaluates to: the
\* body ends after write_yaml_file without a return statement.
DriftReturn(locals) == PyNone

\* The report path as a module-level constant instead of the run's configuration.
FixedDriftReportPath(r) == Path(<<"data_validation", 1, "drift_report">>, "report.yaml")

\* self.data_validation_config.drift_report_file_path
DriftReportPath(r) == data_validation_config[r].drift_report_file_path

-----------------------------------------------------------------------------
(* initiate_data_validation *)

Phase(p) ==
    CASE p \in {"PERSIST_TRAIN", "PERSIST_TEST"} -> "PERSIST_OUTPUTS"
      [] OTHER -> p

\* Lines 146-153.
DataValidationArtifact(r, validation_status) ==
    [py |-> "DataValidationArtifact",
     validation_status |-> validation_status,
     valid_train_file_path |-> data_ingestion_artifact[r].trained_file_path,
     valid_test_file_path |-> data_ingestion_artifact[r].test_file_path,
     invalid_train_file_path |-> PyNone,
     invalid_test_file_path |-> PyNone,
     drift_report_file_path |-> data_validation_config[r].drift_report_file_path]

\* `except Exception as e` that logs e and does not raise again.
RaiseSwallowed(r, e, at) ==
    /\ raised' = raised
    /\ failedAt' = [failedAt EXCEPT ![r] = at]
    /\ pc' = [pc EXCEPT ![r] = "FAILED"]
    /\ trace' = [trace EXCEPT ![r] = Append(@, "FAILED")]

\* Lines 156-157: an exception e of statement `at` leaves
\* initiate_data_validation as NetworkSecurityException(e, sys).
Raise(r, e, at) ==
    /\ raised' = [raised EXCEPT ![r] = NetworkSecurityException(e)]
    /\ failedAt' = [failedAt EXCEPT ![r] = at]
    /\ pc' = [pc EXCEPT ![r] = "FAILED"]
    /\ trace' = [trace EXCEPT ![r] = Append(@, "FAILED")]

Goto(r, p) ==
    /\ pc' = [pc EXCEPT ![r] = p]
    /\ trace' = [trace EXCEPT ![r] = IF Phase(p) = Phase(pc[r]) THEN @ ELSE Append(@, Phase(p))]
    /\ UNCHANGED <<raised, failedAt>>

\* What an I/O call does: it returns or it raises OSError.
IOOutcomes == {"ok", "OSError"}

\* Lines 108-109.
Start(r) ==
    /\ pc[r] = "START"
    /\ Goto(r, "READ_DATASETS")
    /\ UNCHANGED <<runs, schema_config, data_ingestion_artifact, data_validation_config,
                   fs, train_dataframe, test_dataframe, checks, status, drift, artifact>>

\* Lines 112-113: read_data wraps what pd.read_csv raises.
ReadData(r) ==
    /\ pc[r] = "READ_DATASETS"
    /\ \E io1 \in IOOutcomes, io2 \in IOOutcomes :
         LET train_file_path == data_ingestion_artifact[r].trained_file_path
             test_file_path == data_ingestion_artifact[r].test_file_path
         IN  IF io1 # "ok"
             THEN /\ Raise(r, NetworkSecurityException(Exception(io1)), "READ_TRAIN")
                  /\ UNCHANGED <<train_dataframe, test_dataframe>>
             ELSE IF io2 # "ok"
             THEN /\ Raise(r, NetworkSecurityException(Exception(io2)), "READ_TEST")
                  /\ train_dataframe' = [train_dataframe EXCEPT ![r] = fs[train_file_path].frame]
                  /\ UNCHANGED test_dataframe
             ELSE /\ Goto(r, "CHECK_STRUCTURE")
                  /\ train_dataframe' = [train_dataframe EXCEPT ![r] = fs[train_file_path].frame]
                  /\ test_dataframe' = [test_dataframe EXCEPT ![r] = fs[test_file_path].frame]
    /\ UNCHANGED <<runs, schema_config, data_ingestion_artifact, data_validation_config,
                   fs, checks, status, drift, artifact>>

\* Lines 116-131 with every failed check raising.
CheckStructureGated(r) ==
    /\ pc[r] = "CHECK_STRUCTURE"
    /\ LET results == << validate_number_of_columns(schema_config, train_dataframe[r]),
                         validate_number_of_columns(schema_config, test_dataframe[r]),
                         validate_numerical_columns(schema_config, train_dataframe[r]),
                         validate_numerical_columns(schema_config, test_dataframe[r]) >>
       IN  /\ checks' = [checks EXCEPT ![r] = [i \in 1..4 |-> PyBool(results[i])]]
           /\ IF \E i \in 1..4 : ~results[i]
              THEN Raise(r, Exception("ValueError"), "CHECK_STRUCTURE")
              ELSE Goto(r, "CHECK_DRIFT")
    /\ UNCHANGED <<runs, schema_config, data_ingestion_artifact, data_validation_config,
                   fs, train_dataframe, test_dataframe, status, drift, artifact>>

\* Lines 116-131: the four checks; a failed one only sets error_message.
CheckStructure(r) ==
    /\ pc[r] = "CHECK_STRUCTURE"
    /\ checks' = [checks EXCEPT ![r] =
                    << PyBool(validate_number_of_columns(schema_config, train_dataframe[r])),
                       PyBool(validate_number_of_columns(schema_config, test_dataframe[r])),
                       PyBool(validate_numerical_columns(schema_config, train_dataframe[r])),
                       PyBool(validate_numerical_columns(schema_config, test_dataframe[r])) >>]
    /\ Goto(r, "CHECK_DRIFT")
    /\ UNCHANGED <<runs, schema_config, data_ingestion_artifact, data_validation_config,
                   fs, train_dataframe, test_dataframe, status, drift, artifact>>

\* Line 134 with the report written from inside the loop: what the loop has
\* built is on disk when a column raises.
DetectDriftWritesInLoop(r) ==
    /\ pc[r] = "CHECK_DRIFT"
    /\ \E pvalue \in [Columns(train_dataframe[r]) -> PValues],
          raises \in {{}} \cup { {c} : c \in Columns(train_dataframe[r]) },
          io \in IOOutcomes :
         LET locals == DriftLocals(train_dataframe[r], test_dataframe[r],
                                   [pvalue |-> pvalue, raises |-> raises], Threshold)
             drift_report_file_path == DriftReportPath(r)
         IN  /\ drift' = [drift EXCEPT ![r] = locals]
             /\ IF io # "ok"
                THEN /\ Raise(r, NetworkSecurityException(Exception(io)), "WRITE_REPORT")
                     /\ UNCHANGED <<fs, status>>
                ELSE /\ fs' = [fs EXCEPT ![drift_report_file_path] = YamlFile(locals.report)]
                     /\ IF locals.raised # PyNone
                        THEN /\ Raise(r, NetworkSecurityException(locals.raised), "DRIFT_LOOP")
                             /\ UNCHANGED status
                        ELSE /\ status' = [status EXCEPT ![r] = DriftReturn(locals)]
                             /\ Goto(r, "PERSIST_TRAIN")
    /\ UNCHANGED <<runs, schema_config, data_ingestion_artifact, data_validation_config,
                   train_dataframe, test_dataframe, checks, artifact>>

\* Line 134: detect_dataset_drift(base_df=train_dataframe, current_df=test_dataframe),
\* lines 79-104: the loop, makedirs, write_yaml_file.
DetectDrift(r) ==
    /\ pc[r] = "CHECK_DRIFT"
    /\ \E pvalue \in [Columns(train_dataframe[r]) -> PValues],
          raises \in {{}} \cup { {c} : c \in Columns(train_dataframe[r]) },
          io \in IOOutcomes :
         LET locals == DriftLocals(train_dataframe[r], test_dataframe[r],
                                   [pvalue |-> pvalue, raises |-> raises], Threshold)
             drift_report_file_path == DriftReportPath(r)
         IN  /\ drift' = [drift EXCEPT ![r] = locals]
             /\ IF locals.raised # PyNone
                THEN /\ Raise(r, NetworkSecurityException(locals.raised), "DRIFT_LOOP")
                     /\ UNCHANGED <<fs, status>>
                ELSE IF io # "ok"
                THEN /\ Raise(r, NetworkSecurityException(Exception(io)), "WRITE_REPORT")
                     /\ UNCHANGED <<fs, status>>
                ELSE /\ fs' = [fs EXCEPT ![drift_report_file_path] = YamlFile(locals.report)]
                     /\ status' = [status EXCEPT ![r] = DriftReturn(locals)]
                     /\ Goto(r, "PERSIST_TRAIN")
    /\ UNCHANGED <<runs, schema_config, data_ingestion_artifact, data_validation_config,
                   train_dataframe, test_dataframe, checks, artifact>>

\* Lines 135-140: makedirs of the valid directory, then train_dataframe.to_csv.
PersistTrain(r) ==
    /\ pc[r] = "PERSIST_TRAIN"
    /\ \E io1 \in IOOutcomes, io2 \in IOOutcomes :
         IF io1 # "ok"
         THEN /\ Raise(r, Exception(io1), "MAKEDIRS")
              /\ UNCHANGED fs
         ELSE IF io2 # "ok"
         THEN /\ Raise(r, Exception(io2), "WRITE_TRAIN")
              /\ UNCHANGED fs
         ELSE /\ fs' = [fs EXCEPT ![data_validation_config[r].valid_train_file_path] =
                                     CsvFile(train_dataframe[r])]
              /\ Goto(r, "PERSIST_TEST")
    /\ UNCHANGED <<runs, schema_config, data_ingestion_artifact, data_validation_config,
                   train_dataframe, test_dataframe, checks, status, drift, artifact>>

\* Lines 142-154: test_dataframe.to_csv, then the artifact is built and returned.
PersistTest(r) ==
    /\ pc[r] = "PERSIST_TEST"
    /\ \E io \in IOOutcomes :
         IF io # "ok"
         THEN /\ Raise(r, Exception(io), "WRITE_TEST")
              /\ UNCHANGED <<fs, artifact>>
         ELSE /\ fs' = [fs EXCEPT ![data_validation_config[r].valid_test_file_path] =
                                     CsvFile(test_dataframe[r])]
              /\ artifact' = [artifact EXCEPT ![r] = DataValidationArtifact(r, status[r])]
              /\ Goto(r, "DONE")
    /\ UNCHANGED <<runs, schema_config, data_ingestion_artifact, data_validation_config,
                   train_dataframe, test_dataframe, checks, status, drift>>

-----------------------------------------------------------------------------
(* Specifications *)

\* The DataIngestionArtifact of run r.
IngestionArtifact(r) ==
    [trained_file_path |-> Path(<<"data_ingestion", r>>, "train.csv"),
     test_file_path |-> Path(<<"data_ingestion", r>>, "test.csv")]

\* The DataValidationConfig whose artifact directory is d.
ValidationConfig(d) ==
    [drift_report_file_path |-> Path(<<"data_validation", d, "drift_report">>, "report.yaml"),
     valid_train_file_path |-> Path(<<"data_validation", d, "validated">>, "train.csv"),
     valid_test_file_path |-> Path(<<"data_validation", d, "validated">>, "test.csv")]

OutputPaths(cfg) ==
    {cfg.drift_report_file_path, cfg.valid_train_file_path, cfg.valid_test_file_path}

InitRun(R) ==
    /\ runs = R
    /\ data_ingestion_artifact = [r \in R |-> IngestionArtifact(r)]
    /\ pc = [r \in R |-> "START"]
    /\ train_dataframe = [r \in R |-> PyNone]
    /\ test_dataframe = [r \in R |-> PyNone]
    /\ checks = [r \in R |-> << >>]
    /\ status = [r \in R |-> PyNone]
    /\ drift = [r \in R |-> PyNone]
    /\ artifact = [r \in R |-> PyNone]
    /\ raised = [r \in R |-> PyNone]
    /\ failedAt = [r \in R |-> "-"]
    /\ trace = [r \in R |-> <<"START">>]

\* One run, on any schema and any pair of ingested frames; no output exists yet.
Init ==
    /\ InitRun({1})
    /\ schema_config \in Schemas
    /\ data_validation_config = [r \in {1} |-> ValidationConfig(1)]
    /\ \E train \in Frames, test \in Frames :
         fs = (IngestionArtifact(1).trained_file_path :> CsvFile(train))
              @@ (IngestionArtifact(1).test_file_path :> CsvFile(test))
              @@ [p \in OutputPaths(ValidationConfig(1)) |-> NoFile]

\* The next statement of run r.
RunStep(r) ==
    \/ Start(r)
    \/ ReadData(r)
    \/ CheckStructure(r)
    \/ DetectDrift(r)
    \/ PersistTrain(r)
    \/ PersistTest(r)

Next == \E r \in runs : RunStep(r)

Spec == Init /\ [][Next]_vars

\* Two runs in flight at once (two processes serving the /train route, whose
\* handler itself does not yield), each on its own ingested frames; the second
\* run's configuration names either its own artifact directory or the first
\* run's.  A run's steps interleave with the other's between whole-file writes.
InitConc ==
    /\ InitRun({1, 2})
    /\ schema_config = [columns |-> Cols, numerical_columns |-> Cols]
    /\ \E d \in {1, 2} :
         data_validation_config = (1 :> ValidationConfig(1)) @@ (2 :> ValidationConfig(d))
    /\ \E test2 \in {"number", "object"} :
         fs = (IngestionArtifact(1).trained_file_path :> CsvFile(DataFrame([c \in Cols |-> "number"])))
              @@ (IngestionArtifact(1).test_file_path :> CsvFile(DataFrame([c \in Cols |-> "number"])))
              @@ (IngestionArtifact(2).trained_file_path :> CsvFile(DataFrame([c \in Cols |-> "object"])))
              @@ (IngestionArtifact(2).test_file_path :> CsvFile(DataFrame([c \in Cols |-> test2])))
              @@ [p \in OutputPaths(ValidationConfig(1)) \cup OutputPaths(ValidationConfig(2)) |-> NoFile]

SpecConc == InitConc /\ [][Next]_vars

-----------------------------------------------------------------------------
(* Properties *)

\* The run's configured output paths and what they hold.
ReportFile(r) == fs[data_validation_config[r].drift_report_file_path]
ValidTrainFile(r) == fs[data_validation_config[r].valid_train_file_path]
ValidTestFile(r) == fs[data_validation_config[r].valid_test_file_path]

\* detect_dataset_drift has returned to line 134.
DriftReturned(r) == pc[r] \in {"PERSIST_TRAIN", "PERSIST_TEST", "DONE"}

FullOrder ==
    <<"START", "READ_DATASETS", "CHECK_STRUCTURE", "CHECK_DRIFT", "PERSIST_OUTPUTS", "DONE">>

\* C1: a completed run's artifact carries a boolean validation flag that is true
\* iff no column of the train frame has p_value < 0.05, whatever the four
\* structural checks returned.
C1_FlagIsDriftStatus ==
    \A r \in runs :
        pc[r] = "DONE" =>
            artifact[r].validation_status =
                PyBool(\A c \in Columns(train_dataframe[r]) :
                           ~(ReportFile(r).content[c].p_value < Threshold))

\* C2: detect_dataset_drift returns the overall status with the report: each
\* base column's drift_status is true iff its p_value < threshold (equality is
\* no drift), and the returned status is the AND of the no-drift outcomes.
C2_ReturnsOverallStatus ==
    \A r \in runs :
        DriftReturned(r) =>
            /\ \A c \in Columns(train_dataframe[r]) :
                   drift[r].report[c].drift_status = (drift[r].report[c].p_value < Threshold)
            /\ status[r] = PyBool(\A c \in DOMAIN drift[r].report :
                                      ~drift[r].report[c].drift_status)

\* C3: validate_numerical_columns(D) is true iff every numerical column of the
\* schema is among D's numerically typed columns, false iff one is missing.
C3_NumericalSubset ==
    \A r \in runs :
        Len(checks[r]) = 4 =>
            /\ checks[r][3] = PyBool(schema_config.numerical_columns
                                         \subseteq select_number_columns(train_dataframe[r]))
            /\ checks[r][4] = PyBool(schema_config.numerical_columns
                                         \subseteq select_number_columns(test_dataframe[r]))

\* C4: validate_number_of_columns(D) is true iff D has as many columns as the
\* schema declares (the length of its column list), not as many as the schema
\* mapping has top-level keys.
C4_ColumnCount ==
    \A r \in runs :
        Len(checks[r]) = 4 =>
            /\ checks[r][1] = PyBool(Cardinality(Columns(train_dataframe[r]))
                                         = Cardinality(schema_config.columns))
            /\ checks[r][2] = PyBool(Cardinality(Columns(test_dataframe[r]))
                                         = Cardinality(schema_config.columns))

\* C5: once detect_dataset_drift has completed, the report at
\* drift_report_file_path has exactly the base frame's columns as keys, each
\* with a p_value and a drift_status; a column of the current frame alone has
\* no entry.
C5_ReportKeysAreBaseColumns ==
    \A r \in runs :
        DriftReturned(r) =>
            /\ ReportFile(r).kind = "yaml"
            /\ DOMAIN ReportFile(r).content = Columns(train_dataframe[r])
            /\ \A c \in DOMAIN ReportFile(r).content :
                   DOMAIN ReportFile(r).content[c] = {"p_value", "drift_status"}

\* C5 witness: a completed run whose current frame has a column the base lacks.
C5_Witness ==
    \E r \in runs :
        /\ pc[r] = "DONE"
        /\ Columns(test_dataframe[r]) \ Columns(train_dataframe[r]) # {}
        /\ ReportFile(r).kind = "yaml"

\* C6: failing structural checks never fail the run nor skip a step: a run's
\* phases are a prefix of READ_DATASETS, CHECK_STRUCTURE, CHECK_DRIFT,
\* PERSIST_OUTPUTS, DONE, without repetition; a run that has not raised can
\* take its next step; a run is FAILED only by an error of reading, of drift
\* detection or of writing; and a run at DONE has written the report and both
\* valid files.
C6_PermissiveContinue ==
    \A r \in runs :
        /\ pc[r] # "FAILED" =>
               /\ trace[r] = SubSeq(FullOrder, 1, Len(trace[r]))
               /\ trace[r][Len(trace[r])] = Phase(pc[r])
        /\ pc[r] \notin {"DONE", "FAILED"} => ENABLED RunStep(r)
        /\ pc[r] = "FAILED" =>
               /\ failedAt[r] \in {"READ_TRAIN", "READ_TEST", "DRIFT_LOOP", "WRITE_REPORT",
                                   "MAKEDIRS", "WRITE_TRAIN", "WRITE_TEST"}
               /\ RootCause(raised[r]).type \in {"OSError", "KeyError", "ValueError"}
               /\ failedAt[r] = "DRIFT_LOOP" => drift[r].raised # PyNone
        /\ pc[r] = "DONE" =>
               /\ trace[r] = FullOrder
               /\ ReportFile(r) = YamlFile(drift[r].report)
               /\ ValidTrainFile(r) = CsvFile(train_dataframe[r])
               /\ ValidTestFile(r) = CsvFile(test_dataframe[r])

\* C6 witness: a run at DONE all four of whose structural checks failed.
C6_Witness ==
    \E r \in runs :
        /\ pc[r] = "DONE"
        /\ checks[r] = <<PyBool(FALSE), PyBool(FALSE), PyBool(FALSE), PyBool(FALSE)>>

\* C7: an error in any step ends the run in FAILED with one
\* NetworkSecurityException whose root cause is the error raised, no artifact,
\* no later step run (the outputs of the later steps are not written) and no
\* step left to take; an artifact exists only at DONE.
C7_ErrorAborts ==
    \A r \in runs :
        /\ (raised[r] # PyNone) <=> (pc[r] = "FAILED")
        /\ (artifact[r] # PyNone) <=> (pc[r] = "DONE")
        /\ pc[r] = "FAILED" =>
               /\ raised[r].type = "NetworkSecurityException"
               /\ artifact[r] = PyNone
               /\ trace[r][Len(trace[r])] = "FAILED"
               /\ "DONE" \notin { trace[r][i] : i \in 1..Len(trace[r]) }
               /\ ~ENABLED RunStep(r)
               /\ RootCause(raised[r]) =
                      CASE failedAt[r] = "DRIFT_LOOP" -> drift[r].raised
                        [] OTHER -> Exception("OSError")
               /\ failedAt[r] \in {"READ_TRAIN", "READ_TEST", "DRIFT_LOOP", "WRITE_REPORT"} =>
                      ReportFile(r) = NoFile
               /\ failedAt[r] \in {"READ_TRAIN", "READ_TEST", "DRIFT_LOOP", "WRITE_REPORT",
                                   "MAKEDIRS", "WRITE_TRAIN"} =>
                      ValidTrainFile(r) = NoFile
               /\ ValidTestFile(r) = NoFile

\* C7 witness: a run failed by a base column that the current frame lacks.
C7_Witness ==
    \E r \in runs :
        /\ pc[r] = "FAILED"
        /\ failedAt[r] = "DRIFT_LOOP"
        /\ RootCause(raised[r]) = Exception("KeyError")
        /\ Columns(train_dataframe[r]) \ Columns(test_dataframe[r]) # {}

\* The two runs' configurations name pairwise distinct output paths.
DistinctOutputs ==
    \A r1 \in runs, r2 \in runs :
        r1 # r2 => OutputPaths(data_validation_config[r1])
                       \cap OutputPaths(data_validation_config[r2]) = {}

\* C8: with pairwise distinct output paths, in every interleaving each output
\* of a run holds, from the moment the run wrote it, that run's own report or
\* frame; with shared paths nothing excludes the other run's write (the
\* witness is a final state mixing the two runs' outputs).
C8_DistinctPathsIsolate ==
    DistinctOutputs =>
        \A r \in runs :
            /\ DriftReturned(r) => ReportFile(r) = YamlFile(drift[r].report)
            /\ pc[r] \in {"PERSIST_TEST", "DONE"} => ValidTrainFile(r) = CsvFile(train_dataframe[r])
            /\ pc[r] = "DONE" => ValidTestFile(r) = CsvFile(test_dataframe[r])

\* C8 witness: both runs done on shared paths, the report on disk being the
\* first run's and not the second's, the valid train file the second run's
\* and not the first's.
C8_Witness ==
    /\ ~DistinctOutputs
    /\ \A r \in runs : pc[r] = "DONE"
    /\ ReportFile(1) = YamlFile(drift[1].report)
    /\ ReportFile(1) # YamlFile(drift[2].report)
    /\ ValidTrainFile(1) = CsvFile(train_dataframe[2])
    /\ ValidTrainFile(1) # CsvFile(train_dataframe[1])

\* C9: a completed run's artifact names, as valid_train_file_path and
\* valid_test_file_path, the configured paths PERSIST_OUTPUTS wrote, and its
\* invalid paths are null.
C9_ArtifactNamesPersistedFiles ==
    \A r \in runs :
        pc[r] = "DONE" =>
            /\ artifact[r].valid_train_file_path = data_validation_config[r].valid_train_file_path
            /\ artifact[r].valid_test_file_path = data_validation_config[r].valid_test_file_path
            /\ artifact[r].invalid_train_file_path = PyNone
            /\ artifact[r].invalid_test_file_path = PyNone

\* C10: no output exists before every base column has been tested: up to and
\* including a failure of reading or of the per-column loop the three output
\* paths are as they were; a report on disk has every base column; a valid
\* file on disk implies the run's full report on disk, which a later failure
\* leaves there.
C10_NoOutputBeforeLoopEnds ==
    \A r \in runs :
        /\ (\/ pc[r] \in {"START", "READ_DATASETS", "CHECK_STRUCTURE", "CHECK_DRIFT"}
            \/ (pc[r] = "FAILED" /\ failedAt[r] \in {"READ_TRAIN", "READ_TEST", "DRIFT_LOOP"}))
           => /\ ReportFile(r) = NoFile
              /\ ValidTrainFile(r) = NoFile
              /\ ValidTestFile(r) = NoFile
        /\ ReportFile(r) # NoFile =>
               /\ ReportFile(r) = YamlFile(drift[r].report)
               /\ DOMAIN drift[r].report = Columns(train_dataframe[r])
        /\ (ValidTrainFile(r) # NoFile \/ ValidTestFile(r) # NoFile) => ReportFile(r) # NoFile
        /\ ValidTestFile(r) # NoFile => ValidTrainFile(r) # NoFile
        /\ (pc[r] = "FAILED" /\ failedAt[r] \in {"MAKEDIRS", "WRITE_TRAIN", "WRITE_TEST"})
           => ReportFile(r) = YamlFile(drift[r].report)

\* C10 witness: the loop raised after it had tested a column, and no output
\* was written.
C10_Witness ==
    \E r \in runs :
        /\ pc[r] = "FAILED"
        /\ failedAt[r] = "DRIFT_LOOP"
        /\ drift[r].report # << >>
        /\ ReportFile(r) = NoFile

====
